---- MODULE Spec2Model ----
(***************************************************************************)
(* The agent/tool execution core of backend/app/services/mcp_server.py:    *)
(* the MCPServer object (agent registry, tool registry, execution log,     *)
(* metrics) and its operations, with execute_tool split at its single      *)
(* suspension point, the await of the tool handler.                        *)
(***************************************************************************)
EXTENDS Integers, Sequences, FiniteSets, TLC

(***************************************************************************)
(* Bounds of the model.                                                    *)
(***************************************************************************)
\* execute_tool calls started in one behaviour
MaxRequests == 2
\* ticks of the wall clock (seconds)
MaxTime == 2
\* execute_tool calls started in one behaviour of SpecLog
MaxLogCalls == 1002
\* execute_tool calls started in one behaviour of SpecParams
MaxParamCalls == 1
\* execute_tool calls started in one behaviour of SpecQuery
MaxQueryCalls == 3
\* the pages asked of the log query
MaxPage == 4
\* the page sizes asked of the log query, next to the largest one allowed
MaxPageSize == 3

(***************************************************************************)
(* Program constants.                                                      *)
(***************************************************************************)
LOG_CAPACITY == 1000
DEFAULT_TIMEOUT_SECONDS == 30
HTTP_400_BAD_REQUEST == 400
HTTP_403_FORBIDDEN == 403
HTTP_404_NOT_FOUND == 404
HTTP_500_INTERNAL_SERVER_ERROR == 500

(***************************************************************************)
(* Python values.  Optional[x] is <<>> (None) or <<x>>.  A value is a      *)
(* record of its Python type and a payload.  A dict whose order matters    *)
(* (the call's parameters) is a sequence of [k, v] items in insertion      *)
(* order; a dict that is only looked up (a tool's parameter schema) is a   *)
(* function on its keys.                                                   *)
(***************************************************************************)
None == <<>>
Some(x) == <<x>>

\* a Python value: its type and a payload that tells values of a type apart
Py(ty, v) == [ty |-> ty, v |-> v]

Item(k, v) == [k |-> k, v |-> v]
Keys(d) == {d[i].k : i \in 1..Len(d)}

\* truth value of an Optional[str]: None and "" are falsy
Truthy(opt) == opt # None /\ opt[1] # ""

\* the test written as type(value) in types: a subclass does not pass
isinstance_ExactType(value, types) == value.ty \in types

\* isinstance(value, types): bool is a subclass of int
isinstance(value, types) ==
    \/ value.ty \in types
    \/ value.ty = "bool" /\ "int" \in types

\* d[k] = v on a dict held as a function
DictPut(d, k, v) == [x \in DOMAIN d \cup {k} |-> IF x = k THEN v ELSE d[x]]

(***************************************************************************)
(* State of the MCPServer object (__init__, lines 55-64), the wall clock,  *)
(* and the execute_tool calls in progress.                                 *)
(***************************************************************************)
VARIABLES
    agents,         \* self.agents: agent_id -> RegisteredAgent
    tools,          \* self.tools: name -> (ToolDefinition, handler)
    execution_log,  \* self.execution_log
    metrics,        \* self.metrics
    start_time,     \* self.start_time, None until start() has run
    now,            \* datetime.now(timezone.utc), in seconds
    calls           \* the execute_tool coroutines: position, locals, response

vars == <<agents, tools, execution_log, metrics, start_time, now, calls>>

CallIds == {1, 2}

\* a coroutine slot with no call in it
IdleCall ==
    [pc |-> "idle", tool_name |-> "", parameters |-> <<>>, agent_id |-> "",
     request_id |-> None, execution_id |-> "", start_time |-> 0,
     handler |-> "", timeout_seconds |-> 0, kwargs |-> None, outcome |-> None,
     response |-> None]

Init ==
    /\ agents = <<>>
    /\ tools = <<>>
    /\ execution_log = <<>>
    /\ metrics = [total_requests |-> 0, successful_executions |-> 0,
                  failed_executions |-> 0, active_agents |-> 0]
    /\ start_time = None
    /\ now = 0
    /\ calls = [c \in CallIds |-> IdleCall]

(***************************************************************************)
(* The pydantic models.                                                    *)
(***************************************************************************)
\* datetime.now(timezone.utc) at clock reading t, and its isoformat() string
\* (UTC strings of one format order as their instants do)
datetime(t) == Py("datetime", t)
isoformat(t) == Py("str", t)

ToolExecutionResult(success, result, error, execution_time_ms, t) ==
    [success |-> success, result |-> result, error |-> error,
     execution_time_ms |-> execution_time_ms, timestamp |-> isoformat(t)]

\* ToolDefinition built from the dict tool_definition: name, description and parameters are
\* mandatory, required and timeout_seconds have defaults; None when pydantic
\* rejects the dict
ToolDefinition(d) ==
    IF {"name", "description", "parameters"} \subseteq d.given
    THEN Some([name |-> d.name, description |-> d.description,
               parameters |-> d.parameters,
               required |-> IF "required" \in d.given THEN d.required ELSE <<>>,
               timeout_seconds |-> IF "timeout_seconds" \in d.given
                                   THEN d.timeout_seconds
                                   ELSE DEFAULT_TIMEOUT_SECONDS])
    ELSE None

\* the record created awaiting approval: status starts as pending
RegisteredAgent_Pending(agent_id, capabilities, metadata, t) ==
    [agent_id |-> agent_id, capabilities |-> capabilities,
     registered_at |-> t, last_seen |-> t, status |-> "pending",
     metadata |-> metadata]

RegisteredAgent(agent_id, capabilities, metadata, t) ==
    [agent_id |-> agent_id, capabilities |-> capabilities,
     registered_at |-> t, last_seen |-> t, status |-> "active",
     metadata |-> metadata]

HTTPException(status_code, detail) ==
    [kind |-> "HTTPException", status_code |-> status_code, detail |-> detail,
     result |-> None]

\* what execute_tool hands back on success
Returned(execution_result) ==
    [kind |-> "return", status_code |-> 200, detail |-> "",
     result |-> Some(execution_result)]

\* what the await of the handler produced: the local result, or the exception
Outcome(kind, value, message, status_code) ==
    Some([kind |-> kind, value |-> value, message |-> message,
          status_code |-> status_code])

\* lines 134-137
AgentNotActive(agent_id) ==
    HTTPException(HTTP_403_FORBIDDEN,
                  "Agent " \o agent_id \o " is not registered or inactive")

\* an unknown tool reported as a bad request
ToolNotFound_As400(tool_name) ==
    HTTPException(HTTP_400_BAD_REQUEST, "Tool '" \o tool_name \o "' not found")

\* lines 144-147
ToolNotFound(tool_name) ==
    HTTPException(HTTP_404_NOT_FOUND, "Tool '" \o tool_name \o "' not found")

ActiveAgents(ag) == Cardinality({a \in DOMAIN ag : ag[a].status = "active"})

(***************************************************************************)
(* register_agent, register_tool, start, the clock.                        *)
(***************************************************************************)
\* register_agent written as an update: a record that exists keeps its
\* registered_at
register_agent_Merge(agent_id, capabilities, metadata) ==
    /\ IF agent_id = ""
       THEN UNCHANGED <<agents, metrics>>
       ELSE LET agent == RegisteredAgent(agent_id, capabilities,
                             IF metadata = None THEN <<>> ELSE metadata[1], now)
                kept == IF agent_id \in DOMAIN agents
                        THEN [agent EXCEPT !.registered_at = agents[agent_id].registered_at]
                        ELSE agent
                ag == DictPut(agents, agent_id, kept)
            IN /\ agents' = ag
               /\ metrics' = [metrics EXCEPT !.active_agents = ActiveAgents(ag)]
    /\ UNCHANGED <<tools, execution_log, start_time, now, calls>>

register_agent(agent_id, capabilities, metadata) ==
    /\ IF agent_id = ""
       THEN \* ValueError("Agent ID cannot be empty")
            UNCHANGED <<agents, metrics>>
       ELSE LET agent == RegisteredAgent(agent_id, capabilities,
                             IF metadata = None THEN <<>> ELSE metadata[1], now)
                ag == DictPut(agents, agent_id, agent)
            IN /\ agents' = ag
               /\ metrics' = [metrics EXCEPT !.active_agents = ActiveAgents(ag)]
    /\ UNCHANGED <<tools, execution_log, start_time, now, calls>>

\* register_tool written with setdefault: a name already registered keeps its
\* first definition and handler
register_tool_KeepFirst(tool_definition, handler) ==
    /\ LET tool_def == ToolDefinition(tool_definition)
       IN IF tool_def = None \/ tool_def[1].name \in DOMAIN tools
          THEN UNCHANGED tools
          ELSE tools' = DictPut(tools, tool_def[1].name,
                                [tool_def |-> tool_def[1], handler |-> handler])
    /\ UNCHANGED <<agents, execution_log, metrics, start_time, now, calls>>

\* register_tool clearing the name before it validates: a rejected
\* definition takes the entry registered under its name with it
register_tool_ClearsFirst(tool_definition, handler) ==
    /\ LET tool_def == ToolDefinition(tool_definition)
       IN IF tool_def = None
          THEN tools' = [n \in DOMAIN tools \ {tool_definition.name} |-> tools[n]]
          ELSE tools' = DictPut(tools, tool_def[1].name,
                                [tool_def |-> tool_def[1], handler |-> handler])
    /\ UNCHANGED <<agents, execution_log, metrics, start_time, now, calls>>

\* register_tool with the calls holding the registry entry itself instead of
\* the pair they unpacked: a call suspended in the handler of this name is
\* rebound to the new definition and handler
register_tool_RebindsInFlight(tool_definition, handler) ==
    LET tool_def == ToolDefinition(tool_definition)
    IN IF tool_def = None
       THEN UNCHANGED vars
       ELSE /\ tools' = DictPut(tools, tool_def[1].name,
                                [tool_def |-> tool_def[1], handler |-> handler])
            /\ calls' = [c \in CallIds |->
                            IF /\ calls[c].pc = "in_handler"
                               /\ calls[c].tool_name = tool_def[1].name
                            THEN [calls[c] EXCEPT
                                     !.handler = handler,
                                     !.timeout_seconds = tool_def[1].timeout_seconds]
                            ELSE calls[c]]
            /\ UNCHANGED <<agents, execution_log, metrics, start_time, now>>

register_tool(tool_definition, handler) ==
    /\ LET tool_def == ToolDefinition(tool_definition)
       IN IF tool_def = None
          THEN \* HTTPException(400, "Invalid tool definition: ...")
               UNCHANGED tools
          ELSE tools' = DictPut(tools, tool_def[1].name,
                                [tool_def |-> tool_def[1], handler |-> handler])
    /\ UNCHANGED <<agents, execution_log, metrics, start_time, now, calls>>

start ==
    /\ start_time' = Some(now)
    /\ UNCHANGED <<agents, tools, execution_log, metrics, now, calls>>

Tick ==
    /\ now < MaxTime
    /\ now' = now + 1
    /\ UNCHANGED <<agents, tools, execution_log, metrics, start_time, calls>>

(***************************************************************************)
(* execute_tool's helpers.                                                 *)
(***************************************************************************)
\* JSON-schema type name -> the Python types isinstance tests against
_get_python_type(type_str) ==
    CASE type_str = "string"  -> {"str"}
      [] type_str = "number"  -> {"int", "float"}
      [] type_str = "integer" -> {"int"}
      [] type_str = "boolean" -> {"bool"}
      [] type_str = "array"   -> {"list"}
      [] type_str = "object"  -> {"dict"}
      [] OTHER                -> {"str"}

\* the positions of tool_def.required whose name the call does not give
MissingRequired(tool_def, parameters) ==
    {i \in 1..Len(tool_def.required) : tool_def.required[i] \notin Keys(parameters)}

\* the positions of parameters that are declared, carry a type and fail it
TypeMismatches(tool_def, parameters) ==
    {i \in 1..Len(parameters) :
        /\ parameters[i].k \in DOMAIN tool_def.parameters
        /\ LET expected_type == tool_def.parameters[parameters[i].k].type
           IN /\ Truthy(expected_type)
              /\ ~isinstance(parameters[i].v, _get_python_type(expected_type[1]))}

Min(S) == CHOOSE x \in S : \A y \in S : x <= y

\* _validate_parameters without its first loop: required names are not checked
_validate_parameters_NoRequired(tool_def, parameters) ==
    LET wrong == TypeMismatches(tool_def, parameters)
    IN IF wrong # {}
       THEN LET param == parameters[Min(wrong)].k
            IN Some(HTTPException(HTTP_400_BAD_REQUEST,
                    "Parameter '" \o param \o "' should be of type "
                        \o tool_def.parameters[param].type[1]))
       ELSE None

\* None when the parameters pass, else the HTTPException of the first failure:
\* the required names in list order, then the parameters in dict order
_validate_parameters(tool_def, parameters) ==
    LET missing == MissingRequired(tool_def, parameters)
        wrong == TypeMismatches(tool_def, parameters)
    IN IF missing # {}
       THEN Some(HTTPException(HTTP_400_BAD_REQUEST,
                "Missing required parameter: " \o tool_def.required[Min(missing)]))
       ELSE IF wrong # {}
       THEN LET param == parameters[Min(wrong)].k
            IN Some(HTTPException(HTTP_400_BAD_REQUEST,
                    "Parameter '" \o param \o "' should be of type "
                        \o tool_def.parameters[param].type[1]))
       ELSE None

\* sha256 of the current time, cut to 16 hex digits: a function of the time
_generate_request_id(t) == "sha256:" \o ToString(t)

\* (end - start).total_seconds() * 1000
ElapsedMs(t0, t1) == (t1 - t0) * 1000

\* the truncation written as [:1000]: the oldest entries are kept
_log_execution_KeepOldest(log, execution_id, tool_name, agent_id, parameters, result, status, execution_time_ms, error, t) ==
    LET log_entry == [execution_id |-> execution_id, timestamp |-> isoformat(t),
                      tool |-> tool_name, agent_id |-> agent_id,
                      parameters |-> parameters, status |-> status,
                      execution_time_ms |-> execution_time_ms,
                      result |-> result,
                      error |-> IF Truthy(error) THEN error ELSE None]
        appended == Append(log, log_entry)
    IN IF Len(appended) > LOG_CAPACITY
       THEN SubSeq(appended, 1, LOG_CAPACITY)
       ELSE appended

\* _log_execution with the execution_id as a key: an id the log already
\* holds is not logged again
_log_execution_Dedup(log, execution_id, tool_name, agent_id, parameters, result, status, execution_time_ms, error, t) ==
    LET log_entry == [execution_id |-> execution_id, timestamp |-> isoformat(t),
                      tool |-> tool_name, agent_id |-> agent_id,
                      parameters |-> parameters, status |-> status,
                      execution_time_ms |-> execution_time_ms,
                      result |-> result,
                      error |-> IF Truthy(error) THEN error ELSE None]
        appended == IF \E i \in 1..Len(log) : log[i].execution_id = execution_id
                    THEN log
                    ELSE Append(log, log_entry)
    IN IF Len(appended) > LOG_CAPACITY
       THEN SubSeq(appended, Len(appended) - LOG_CAPACITY + 1, Len(appended))
       ELSE appended

_log_execution(log, execution_id, tool_name, agent_id, parameters, result, status, execution_time_ms, error, t) ==
    LET log_entry == [execution_id |-> execution_id, timestamp |-> isoformat(t),
                      tool |-> tool_name, agent_id |-> agent_id,
                      parameters |-> parameters, status |-> status,
                      execution_time_ms |-> execution_time_ms,
                      result |-> result,
                      error |-> IF Truthy(error) THEN error ELSE None]
        appended == Append(log, log_entry)
    IN IF Len(appended) > LOG_CAPACITY
       THEN SubSeq(appended, Len(appended) - LOG_CAPACITY + 1, Len(appended))
       ELSE appended

\* line 156 spreads the parameters as keyword arguments next to the keyword
\* user_context: with a parameter that is itself named user_context Python
\* raises TypeError at the call, before the handler runs
KeywordCollision(parameters) == "user_context" \in Keys(parameters)
KeywordCollisionMessage ==
    "got multiple values for keyword argument 'user_context'"

\* the arguments of the call, kept while it runs and with its response
CallArgs(tool_name, parameters, agent_id, request_id) ==
    [IdleCall EXCEPT !.tool_name = tool_name, !.parameters = parameters,
                     !.agent_id = agent_id, !.request_id = request_id]

(***************************************************************************)
(* execute_tool's three exits.  c is the coroutine, args its arguments, m  *)
(* and ag the metrics and agents as the try block left them, outcome what  *)
(* the handler did (None when it was not invoked).                         *)
(***************************************************************************)
\* the except clause as a circuit breaker: the agent whose call failed is
\* marked inactive
FailExecution_DeactivatesAgent(c, args, execution_id, started, m, ag, outcome, message) ==
    LET execution_time == ElapsedMs(started, now)
        error_result == ToolExecutionResult(FALSE, None, Some(message),
                                            execution_time, now)
    IN /\ metrics' = [m EXCEPT !.failed_executions = @ + 1]
       /\ execution_log' = _log_execution(execution_log, execution_id,
                               args.tool_name, args.agent_id, args.parameters,
                               error_result, "error", execution_time,
                               Some(message), now)
       /\ calls' = [calls EXCEPT ![c] = [args EXCEPT !.pc = "done",
                       !.outcome = outcome,
                       !.response = Some(HTTPException(HTTP_500_INTERNAL_SERVER_ERROR,
                                            "Tool execution failed: " \o message))]]
       /\ agents' = [a \in DOMAIN ag |->
                        IF a = args.agent_id
                        THEN [ag[a] EXCEPT !.status = "inactive"]
                        ELSE ag[a]]
       /\ UNCHANGED <<tools, start_time, now>>

\* the except clause taking the failed call back out of total_requests
FailExecution_UncountsRequest(c, args, execution_id, started, m, ag, outcome, message) ==
    LET execution_time == ElapsedMs(started, now)
        error_result == ToolExecutionResult(FALSE, None, Some(message),
                                            execution_time, now)
    IN /\ metrics' = [m EXCEPT !.failed_executions = @ + 1,
                               !.total_requests = @ - 1]
       /\ execution_log' = _log_execution(execution_log, execution_id,
                               args.tool_name, args.agent_id, args.parameters,
                               error_result, "error", execution_time,
                               Some(message), now)
       /\ calls' = [calls EXCEPT ![c] = [args EXCEPT !.pc = "done",
                       !.outcome = outcome,
                       !.response = Some(HTTPException(HTTP_500_INTERNAL_SERVER_ERROR,
                                            "Tool execution failed: " \o message))]]
       /\ agents' = ag
       /\ UNCHANGED <<tools, start_time, now>>

\* lines 183-210: any other exception e, with str(e) = message
FailExecution(c, args, execution_id, started, m, ag, outcome, message) ==
    LET execution_time == ElapsedMs(started, now)
        error_result == ToolExecutionResult(FALSE, None, Some(message),
                                            execution_time, now)
    IN /\ metrics' = [m EXCEPT !.failed_executions = @ + 1]
       /\ execution_log' = _log_execution(execution_log, execution_id,
                               args.tool_name, args.agent_id, args.parameters,
                               error_result, "error", execution_time,
                               Some(message), now)
       /\ calls' = [calls EXCEPT ![c] = [args EXCEPT !.pc = "done",
                       !.outcome = outcome,
                       !.response = Some(HTTPException(HTTP_500_INTERNAL_SERVER_ERROR,
                                            "Tool execution failed: " \o message))]]
       /\ agents' = ag
       /\ UNCHANGED <<tools, start_time, now>>

\* execute_tool without its `except HTTPException: raise` clause: the
\* HTTPException falls into `except Exception`
ReraiseHTTPException_Swallowed(c, args, m, ag, outcome, exc) ==
    FailExecution(c, args, args.execution_id, now, m, ag, outcome, exc.detail)

\* the rejection path with last_seen written only once the preconditions
\* have passed: a rejected call leaves the agent records as they were
ReraiseHTTPException_NoTouch(c, args, m, ag, outcome, exc) ==
    /\ calls' = [calls EXCEPT ![c] = [args EXCEPT !.pc = "done",
                    !.outcome = outcome, !.response = Some(exc)]]
    /\ metrics' = m
    /\ agents' = agents
    /\ UNCHANGED <<tools, execution_log, start_time, now>>

\* lines 180-181: an HTTPException leaves as it is
ReraiseHTTPException(c, args, m, ag, outcome, exc) ==
    /\ calls' = [calls EXCEPT ![c] = [args EXCEPT !.pc = "done",
                    !.outcome = outcome, !.response = Some(exc)]]
    /\ metrics' = m
    /\ agents' = ag
    /\ UNCHANGED <<tools, execution_log, start_time, now>>

\* the success path with the log call left out
CompleteExecution_NoLog(c, args, execution_id, started, outcome, result) ==
    LET execution_time == ElapsedMs(started, now)
        execution_result == ToolExecutionResult(TRUE, Some(result), None,
                                                execution_time, now)
    IN /\ metrics' = [metrics EXCEPT !.successful_executions = @ + 1]
       /\ calls' = [calls EXCEPT ![c] = [args EXCEPT !.pc = "done",
                       !.outcome = outcome,
                       !.response = Some(Returned(execution_result))]]
       /\ UNCHANGED <<agents, tools, execution_log, start_time, now>>

\* the success path with the counter read before the await and written back
\* after it: the increment of a call that completes while another call is
\* between its read and its write is overwritten
CompleteExecution_LostUpdate(c, args, execution_id, started, outcome, result) ==
    LET execution_time == ElapsedMs(started, now)
        execution_result == ToolExecutionResult(TRUE, Some(result), None,
                                                execution_time, now)
        overwritten == \E d \in CallIds \ {c} : calls[d].pc = "in_handler"
    IN /\ metrics' = [metrics EXCEPT !.successful_executions =
                                        IF overwritten THEN @ ELSE @ + 1]
       /\ execution_log' = _log_execution(execution_log, execution_id,
                               args.tool_name, args.agent_id, args.parameters,
                               execution_result, "success", execution_time,
                               None, now)
       /\ calls' = [calls EXCEPT ![c] = [args EXCEPT !.pc = "done",
                       !.outcome = outcome,
                       !.response = Some(Returned(execution_result))]]
       /\ UNCHANGED <<agents, tools, start_time, now>>

\* lines 158-178: the handler returned result
CompleteExecution(c, args, execution_id, started, outcome, result) ==
    LET execution_time == ElapsedMs(started, now)
        execution_result == ToolExecutionResult(TRUE, Some(result), None,
                                                execution_time, now)
    IN /\ metrics' = [metrics EXCEPT !.successful_executions = @ + 1]
       /\ execution_log' = _log_execution(execution_log, execution_id,
                               args.tool_name, args.agent_id, args.parameters,
                               execution_result, "success", execution_time,
                               None, now)
       /\ calls' = [calls EXCEPT ![c] = [args EXCEPT !.pc = "done",
                       !.outcome = outcome,
                       !.response = Some(Returned(execution_result))]]
       /\ UNCHANGED <<agents, tools, start_time, now>>

(***************************************************************************)
(* execute_tool.  Lines 126-156 run without suspending: the call either    *)
(* leaves through an except clause at once or reaches the await of the     *)
(* handler, where other coroutines run until the handler finishes.         *)
(***************************************************************************)
\* lines 132-133: the agent is registered and active
AgentIsActive(agent_id) ==
    agent_id \in DOMAIN agents /\ agents[agent_id].status = "active"

\* execute_tool holding a lock of the dispatcher from entry to exit, the
\* handler call included: no call enters while another is in its handler
execute_tool_Serialized(c, tool_name, parameters, agent_id, request_id, user_context) ==
    /\ calls[c].pc = "idle"
    /\ \A d \in CallIds : calls[d].pc \notin {"in_handler", "hung"}
    /\ LET args == CallArgs(tool_name, parameters, agent_id, request_id)
           m == [metrics EXCEPT !.total_requests = @ + 1]
           execution_id == IF Truthy(request_id) THEN request_id[1]
                           ELSE _generate_request_id(now)
       IN IF ~AgentIsActive(agent_id)
          THEN ReraiseHTTPException(c, args, m, agents, None,
                                    AgentNotActive(agent_id))
          ELSE
          LET ag == [agents EXCEPT ![agent_id].last_seen = now]
          IN IF tool_name \notin DOMAIN tools
             THEN ReraiseHTTPException(c, args, m, ag, None,
                                       ToolNotFound(tool_name))
             ELSE
             LET tool_def == tools[tool_name].tool_def
                 handler == tools[tool_name].handler
                 invalid == _validate_parameters(tool_def, parameters)
             IN IF invalid # None
                THEN ReraiseHTTPException(c, args, m, ag, None, invalid[1])
                ELSE IF KeywordCollision(parameters)
                THEN FailExecution(c, args, execution_id, now, m, ag, None,
                                   KeywordCollisionMessage)
                ELSE \* line 156: the handler is running
                     /\ calls' = [calls EXCEPT ![c] =
                           [args EXCEPT !.pc = "in_handler",
                                        !.execution_id = execution_id,
                                        !.start_time = now,
                                        !.handler = handler,
                                        !.timeout_seconds = tool_def.timeout_seconds,
                                        !.kwargs = Some([parameters |-> parameters,
                                            user_context |-> IF user_context = None
                                                             THEN <<>>
                                                             ELSE user_context[1]])]]
                     /\ metrics' = m
                     /\ agents' = ag
                     /\ UNCHANGED <<tools, execution_log, start_time, now>>

execute_tool(c, tool_name, parameters, agent_id, request_id, user_context) ==
    /\ calls[c].pc = "idle"
    /\ LET args == CallArgs(tool_name, parameters, agent_id, request_id)
           m == [metrics EXCEPT !.total_requests = @ + 1]
           execution_id == IF Truthy(request_id) THEN request_id[1]
                           ELSE _generate_request_id(now)
       IN IF ~AgentIsActive(agent_id)
          THEN ReraiseHTTPException(c, args, m, agents, None,
                                    AgentNotActive(agent_id))
          ELSE
          LET ag == [agents EXCEPT ![agent_id].last_seen = now]
          IN IF tool_name \notin DOMAIN tools
             THEN ReraiseHTTPException(c, args, m, ag, None,
                                       ToolNotFound(tool_name))
             ELSE
             LET tool_def == tools[tool_name].tool_def
                 handler == tools[tool_name].handler
                 invalid == _validate_parameters(tool_def, parameters)
             IN IF invalid # None
                THEN ReraiseHTTPException(c, args, m, ag, None, invalid[1])
                ELSE IF KeywordCollision(parameters)
                THEN FailExecution(c, args, execution_id, now, m, ag, None,
                                   KeywordCollisionMessage)
                ELSE \* line 156: the handler is running
                     /\ calls' = [calls EXCEPT ![c] =
                           [args EXCEPT !.pc = "in_handler",
                                        !.execution_id = execution_id,
                                        !.start_time = now,
                                        !.handler = handler,
                                        !.timeout_seconds = tool_def.timeout_seconds,
                                        !.kwargs = Some([parameters |-> parameters,
                                            user_context |-> IF user_context = None
                                                             THEN <<>>
                                                             ELSE user_context[1]])]]
                     /\ metrics' = m
                     /\ agents' = ag
                     /\ UNCHANGED <<tools, execution_log, start_time, now>>

\* the arguments of the call that coroutine c is running
ArgsOf(c) == CallArgs(calls[c].tool_name, calls[c].parameters,
                      calls[c].agent_id, calls[c].request_id)

\* the handler returns result: lines 158-178
HandlerReturns(c, result) ==
    /\ calls[c].pc = "in_handler"
    /\ CompleteExecution(c, ArgsOf(c), calls[c].execution_id,
                         calls[c].start_time,
                         Outcome("returned", Some(result), "", 0), result)

\* the handler raises an exception that is not an HTTPException: lines 183-210
HandlerRaises(c, message) ==
    /\ calls[c].pc = "in_handler"
    /\ FailExecution(c, ArgsOf(c), calls[c].execution_id, calls[c].start_time,
                     metrics, agents,
                     Outcome("raised", None, message, 0), message)

\* the handler raises an HTTPException: lines 180-181
HandlerRaisesHTTPException(c, status_code, detail) ==
    /\ calls[c].pc = "in_handler"
    /\ ReraiseHTTPException(c, ArgsOf(c), metrics, agents,
                            Outcome("raised HTTPException", None, detail, status_code),
                            HTTPException(status_code, detail))

\* the handler blocks for good (it awaits something that never comes); the
\* await of line 156 has no deadline, so nothing in execute_tool runs again
HandlerHangs(c) ==
    /\ calls[c].pc = "in_handler"
    /\ calls' = [calls EXCEPT ![c].pc = "hung"]
    /\ UNCHANGED <<agents, tools, execution_log, metrics, start_time, now>>

\* the endpoint hands the result or the HTTPException to the client
Respond(c) ==
    /\ calls[c].pc = "done"
    /\ calls' = [calls EXCEPT ![c] = IdleCall]
    /\ UNCHANGED <<agents, tools, execution_log, metrics, start_time, now>>

\* get_metrics counting the distinct handlers instead of the registry's keys
get_metrics_CountsHandlers ==
    [total_requests |-> metrics.total_requests,
     successful_executions |-> metrics.successful_executions,
     failed_executions |-> metrics.failed_executions,
     active_agents |-> ActiveAgents(agents),
     registered_tools |-> Cardinality({tools[n].handler : n \in DOMAIN tools}),
     uptime_seconds |-> IF start_time # None THEN now - start_time[1] ELSE 0]

\* get_metrics(): a read of the state
get_metrics ==
    [total_requests |-> metrics.total_requests,
     successful_executions |-> metrics.successful_executions,
     failed_executions |-> metrics.failed_executions,
     active_agents |-> ActiveAgents(agents),
     registered_tools |-> Cardinality(DOMAIN tools),
     uptime_seconds |-> IF start_time # None THEN now - start_time[1] ELSE 0]

(***************************************************************************)
(* The inputs the operations are called with.                              *)
(***************************************************************************)
AllGiven == {"name", "description", "parameters", "required", "timeout_seconds"}
Schema(type) == [type |-> type]

\* the tool of the scenarios: sum, requiring numbers: array
SumTool ==
    [given |-> AllGiven, name |-> "sum", description |-> "adds the numbers",
     parameters |-> [numbers |-> Schema(Some("array"))],
     required |-> <<"numbers">>, timeout_seconds |-> 1]
\* a definition pydantic rejects: no description, no parameters
BadTool == [SumTool EXCEPT !.given = {"name"}]

AgentIds == {"a1", "a2"}
ToolNames == {"sum", "echo"}
ToolDefinitions == {SumTool, BadTool}
Handlers == {"h_sum"}
Capabilities == {<<"math">>}
Metadata == {None}
Parameters == {<<>>,
               <<Item("numbers", Py("list", 1))>>,
               <<Item("numbers", Py("str", 1))>>}
RequestIds == {None, Some("r1")}
UserContexts == {None}
HandlerResults == {Py("int", 6)}
HandlerMessages == {"boom"}
HandlerHTTPStatuses == {HTTP_404_NOT_FOUND}

(***************************************************************************)
(* The specification: any interleaving of registrations and execute_tool   *)
(* calls within one instant of the clock.                                  *)
(***************************************************************************)
Next ==
    \/ \E a \in AgentIds \cup {""}, caps \in Capabilities, md \in Metadata :
           register_agent(a, caps, md)
    \/ \E d \in ToolDefinitions, h \in Handlers : register_tool(d, h)
    \/ \E c \in CallIds, t \in ToolNames, p \in Parameters, a \in AgentIds,
          r \in RequestIds, u \in UserContexts :
           /\ metrics.total_requests < MaxRequests
           /\ execute_tool(c, t, p, a, r, u)
    \/ \E c \in CallIds, v \in HandlerResults : HandlerReturns(c, v)
    \/ \E c \in CallIds, msg \in HandlerMessages : HandlerRaises(c, msg)
    \/ \E c \in CallIds, sc \in HandlerHTTPStatuses :
           HandlerRaisesHTTPException(c, sc, "upstream")
    \/ \E c \in CallIds : HandlerHangs(c)
    \/ \E c \in CallIds : Respond(c)

Spec == Init /\ [][Next]_vars

(***************************************************************************)
(* SpecLog: one client that registers agent a1 and the tool sum and then   *)
(* makes valid calls one after the other, the n-th with request_id n (it   *)
(* calls only once both are registered, so every call reaches the log),    *)
(* until the log has overflowed.                                           *)
(***************************************************************************)
NextLog ==
    \/ register_agent("a1", <<"math">>, None)
    \/ register_tool(SumTool, "h_sum")
    \/ /\ metrics.total_requests < MaxLogCalls
       /\ "a1" \in DOMAIN agents
       /\ "sum" \in DOMAIN tools
       /\ execute_tool(1, "sum", <<Item("numbers", Py("list", 1))>>, "a1",
                       Some(ToString(metrics.total_requests + 1)), None)
    \/ HandlerReturns(1, Py("int", 6))
    \/ Respond(1)

SpecLog == Init /\ [][NextLog]_vars

(***************************************************************************)
(* SpecTimed: the server started, agent a1 and the tool sum (whose         *)
(* timeout_seconds is 1) registered at any moment, calls of sum by a1 with *)
(* or without its required parameter, and the clock running.               *)
(***************************************************************************)
NextTimed ==
    \/ start
    \/ Tick
    \/ register_agent("a1", <<"math">>, None)
    \/ register_tool(SumTool, "h_sum")
    \/ \E c \in CallIds, p \in {<<>>, <<Item("numbers", Py("list", 1))>>} :
           /\ metrics.total_requests < MaxRequests
           /\ execute_tool(c, "sum", p, "a1", None, None)
    \/ \E c \in CallIds, v \in HandlerResults : HandlerReturns(c, v)
    \/ \E c \in CallIds, msg \in HandlerMessages : HandlerRaises(c, msg)
    \/ \E c \in CallIds : HandlerHangs(c)
    \/ \E c \in CallIds : Respond(c)

SpecTimed == Init /\ [][NextTimed]_vars

(***************************************************************************)
(* SpecParams: agent a1 and one tool with a typed, an integer and an       *)
(* untyped parameter, called with every dict of at most two items over     *)
(* declared names, an undeclared name and the name user_context, with      *)
(* values of four Python types.                                            *)
(***************************************************************************)
TypedTool ==
    [given |-> AllGiven, name |-> "typed", description |-> "typed parameters",
     parameters |-> [numbers |-> Schema(Some("array")),
                     count |-> Schema(Some("integer")),
                     label |-> Schema(None)],
     required |-> <<"numbers">>, timeout_seconds |-> 1]

ParamNames == {"numbers", "count", "label", "extra", "user_context"}
ParamValues == {Py("list", 1), Py("str", 1), Py("int", 1), Py("bool", 1)}
ParamItems == {Item(k, v) : k \in ParamNames, v \in ParamValues}
ParamDicts ==
    {<<>>} \cup {<<i>> : i \in ParamItems}
           \cup {d \in {<<i, j>> : i \in ParamItems, j \in ParamItems} :
                      d[1].k # d[2].k}

NextParams ==
    \/ register_agent("a1", <<"math">>, None)
    \/ register_tool(TypedTool, "h_typed")
    \/ \E p \in ParamDicts :
           /\ metrics.total_requests < MaxParamCalls
           /\ execute_tool(1, "typed", p, "a1", None, None)
    \/ \E v \in HandlerResults : HandlerReturns(1, v)
    \/ Respond(1)

SpecParams == Init /\ [][NextParams]_vars

(***************************************************************************)
(* Vocabulary of the properties.                                           *)
(***************************************************************************)
\* the step is coroutine c running execute_tool up to its first exit or await
Begins(c) == calls[c].pc = "idle" /\ calls'[c].pc # "idle"
\* the step is coroutine c resuming after its handler finished
Resumes(c) == calls[c].pc = "in_handler" /\ calls'[c].pc = "done"
\* no execute_tool call is in flight
Quiescent == \A c \in CallIds : calls[c].pc \in {"idle", "done"}

\* the step appends exactly one entry to the log (below its capacity)
AppendsOneEntry ==
    /\ Len(execution_log') = Len(execution_log) + 1
    /\ SubSeq(execution_log', 1, Len(execution_log)) = execution_log
NewEntry == execution_log'[Len(execution_log')]

\* the status code of the response c holds, 0 when it holds none
StatusOf(call) == IF call.response = None THEN 0 ELSE call.response[1].status_code

\* the tool looked up by the call that c starts in this step
ToolOf(call) == tools[call.tool_name].tool_def

(***************************************************************************)
(* C1: once every execute_tool call has returned or raised,                *)
(* successful_executions + failed_executions = total_requests.             *)
(* The code counts a call in total_requests on entry (line 126) and counts *)
(* a call that leaves through `except HTTPException: raise` in neither of  *)
(* the other two counters.                                                 *)
(***************************************************************************)
C1_MetricsBalance ==
    Quiescent =>
        metrics.successful_executions + metrics.failed_executions
            = metrics.total_requests

(***************************************************************************)
(* C3: an execute_tool call under an agent_id that is not registered ends  *)
(* at once with the 403 HTTPException, whatever the tool name and the      *)
(* parameters, and leaves the execution log as it was.                     *)
(***************************************************************************)
C3_UnregisteredAgentForbidden ==
    [][\A c \in CallIds :
          (Begins(c) /\ calls'[c].agent_id \notin DOMAIN agents) =>
              /\ calls'[c].pc = "done"
              /\ calls'[c].response = Some(AgentNotActive(calls'[c].agent_id))
              /\ StatusOf(calls'[c]) = HTTP_403_FORBIDDEN
              /\ calls'[c].kwargs = None
              /\ execution_log' = execution_log]_vars

\* a 403 for an unregistered agent although the tool exists and the
\* parameters are valid for it
C3_Witness ==
    \E c \in CallIds :
        /\ calls[c].pc = "done"
        /\ calls[c].agent_id \notin DOMAIN agents
        /\ calls[c].tool_name \in DOMAIN tools
        /\ _validate_parameters(ToolOf(calls[c]), calls[c].parameters) = None
        /\ StatusOf(calls[c]) = HTTP_403_FORBIDDEN

(***************************************************************************)
(* C4: an execute_tool call by an active agent on a registered tool whose  *)
(* parameters lack a required name ends at once with a 400 HTTPException   *)
(* whose detail names a required parameter that is missing; the handler is *)
(* not invoked and the call appends no status=success log entry.           *)
(***************************************************************************)
MissingNames(tool_def, parameters) ==
    {tool_def.required[i] : i \in MissingRequired(tool_def, parameters)}

\* the call c starts in this step passes the agent and tool checks and
\* omits a required parameter
OmitsRequired(c) ==
    /\ Begins(c)
    /\ AgentIsActive(calls'[c].agent_id)
    /\ calls'[c].tool_name \in DOMAIN tools
    /\ MissingRequired(ToolOf(calls'[c]), calls'[c].parameters) # {}

C4_MissingRequiredRejected ==
    [][\A c \in CallIds :
          OmitsRequired(c) =>
              /\ calls'[c].pc = "done"
              /\ StatusOf(calls'[c]) = HTTP_400_BAD_REQUEST
              /\ \E name \in MissingNames(ToolOf(calls'[c]), calls'[c].parameters) :
                     calls'[c].response[1].detail
                         = "Missing required parameter: " \o name
              /\ calls'[c].kwargs = None
              /\ calls'[c].outcome = None
              /\ ~(AppendsOneEntry /\ NewEntry.status = "success")
              /\ metrics'.successful_executions = metrics.successful_executions]_vars

C4_Witness ==
    \E c \in CallIds :
        /\ calls[c].pc = "done"
        /\ AgentIsActive(calls[c].agent_id)
        /\ calls[c].tool_name \in DOMAIN tools
        /\ MissingRequired(ToolOf(calls[c]), calls[c].parameters) # {}
        /\ StatusOf(calls[c]) = HTTP_400_BAD_REQUEST

(***************************************************************************)
(* C5: an execute_tool call by an active agent on a registered tool that   *)
(* omits a required parameter appends exactly one status=error log entry   *)
(* and adds exactly 1 to failed_executions.  The code raises the 400       *)
(* through `except HTTPException: raise`, which does neither.              *)
(***************************************************************************)
C5_MissingRequiredLogged ==
    [][\A c \in CallIds :
          OmitsRequired(c) =>
              /\ AppendsOneEntry
              /\ NewEntry.status = "error"
              /\ metrics'.failed_executions = metrics.failed_executions + 1]_vars

(***************************************************************************)
(* C6: when the handler returns v, execute_tool returns a result record    *)
(* with success = true and result = v, adds exactly 1 to                   *)
(* successful_executions, leaves failed_executions alone and appends       *)
(* exactly one status=success log entry carrying the call's tool name,     *)
(* agent_id and parameters.                                                *)
(***************************************************************************)
HandlerDid(c, kinds) ==
    /\ Resumes(c)
    /\ calls'[c].outcome # None
    /\ calls'[c].outcome[1].kind \in kinds

C6_SuccessRecorded ==
    [][\A c \in CallIds :
          HandlerDid(c, {"returned"}) =>
              /\ calls'[c].response[1].kind = "return"
              /\ calls'[c].response[1].result[1].success = TRUE
              /\ calls'[c].response[1].result[1].result = calls'[c].outcome[1].value
              /\ metrics'.successful_executions = metrics.successful_executions + 1
              /\ metrics'.failed_executions = metrics.failed_executions
              /\ AppendsOneEntry
              /\ NewEntry.status = "success"
              /\ NewEntry.tool = calls[c].tool_name
              /\ NewEntry.agent_id = calls[c].agent_id
              /\ NewEntry.parameters = calls[c].parameters]_vars

\* a call has returned the handler's value while another call is in flight
C6_Witness ==
    \E c, d \in CallIds :
        /\ calls[c].pc = "done"
        /\ calls[c].outcome # None
        /\ calls[c].outcome[1].kind = "returned"
        /\ calls[c].response[1].result[1].result = Some(Py("int", 6))
        /\ calls[d].pc = "in_handler"
        /\ Len(execution_log) > 0

(***************************************************************************)
(* C7: whenever the handler raises, whatever the exception (an             *)
(* HTTPException included), the call adds exactly 1 to failed_executions,  *)
(* appends exactly one status=error log entry that carries the error       *)
(* message, and answers with an error.  The code lets a handler's          *)
(* HTTPException out through `except HTTPException: raise`, uncounted and  *)
(* unlogged.                                                               *)
(***************************************************************************)
C7_HandlerFailureRecorded ==
    [][\A c \in CallIds :
          HandlerDid(c, {"raised", "raised HTTPException"}) =>
              /\ metrics'.failed_executions = metrics.failed_executions + 1
              /\ AppendsOneEntry
              /\ NewEntry.status = "error"
              /\ NewEntry.result.error = Some(calls'[c].outcome[1].message)
              /\ calls'[c].response[1].kind = "HTTPException"]_vars

(***************************************************************************)
(* C9: an execute_tool call by a registered active agent naming a tool     *)
(* that is not registered ends at once with the 404 HTTPException and      *)
(* invokes no handler; no call that starts otherwise is answered 404 by    *)
(* the checks of execute_tool, so 404 tells the unknown tool from the      *)
(* unknown agent (403) and the invalid parameters (400).                   *)
(***************************************************************************)
C9_UnknownToolNotFound ==
    [][\A c \in CallIds :
          Begins(c) =>
              LET unknown == /\ AgentIsActive(calls'[c].agent_id)
                             /\ calls'[c].tool_name \notin DOMAIN tools
              IN /\ unknown <=> StatusOf(calls'[c]) = HTTP_404_NOT_FOUND
                 /\ unknown =>
                        /\ calls'[c].pc = "done"
                        /\ calls'[c].response = Some(ToolNotFound(calls'[c].tool_name))
                        /\ calls'[c].kwargs = None
                        /\ calls'[c].outcome = None]_vars

\* a 404 for an active agent, next to a 403 for an unregistered one
C9_Witness ==
    \E c, d \in CallIds :
        /\ calls[c].pc = "done"
        /\ AgentIsActive(calls[c].agent_id)
        /\ calls[c].tool_name \notin DOMAIN tools
        /\ StatusOf(calls[c]) = HTTP_404_NOT_FOUND
        /\ calls[d].pc = "done"
        /\ StatusOf(calls[d]) = HTTP_403_FORBIDDEN

(***************************************************************************)
(* C2: the execution log never holds more than 1000 entries; an append     *)
(* that would exceed 1000 drops the oldest entries, so after n sequential  *)
(* appends the log holds exactly the last min(n, 1000) entries in their    *)
(* original order (under SpecLog the n-th appended entry has               *)
(* execution_id n).                                                        *)
(***************************************************************************)
Appended == metrics.successful_executions + metrics.failed_executions

C2_LogKeepsLast1000 ==
    /\ Len(execution_log) <= LOG_CAPACITY
    /\ Len(execution_log) = IF Appended < LOG_CAPACITY THEN Appended ELSE LOG_CAPACITY
    /\ \A i \in 1..Len(execution_log) :
           execution_log[i].execution_id
               = ToString(Appended - Len(execution_log) + i)

\* more than 1000 appends have happened and entries 1 and 2 are gone
C2_Witness ==
    /\ Appended > LOG_CAPACITY + 1
    /\ Len(execution_log) = LOG_CAPACITY
    /\ execution_log[1].execution_id = ToString(Appended - LOG_CAPACITY + 1)

(***************************************************************************)
(* C8: a call whose handler has not finished timeout_seconds after it was  *)
(* invoked stops waiting and fails through the handler-failure path, so no *)
(* call is still waiting for its handler more than timeout_seconds after   *)
(* the invocation.  The code awaits the handler with no deadline (line     *)
(* 156); timeout_seconds is stored and never read.                         *)
(***************************************************************************)
C8_NoCallWaitsPastTimeout ==
    \A c \in CallIds :
        calls[c].pc \in {"in_handler", "hung"} =>
            now - calls[c].start_time <= calls[c].timeout_seconds

(***************************************************************************)
(* C10: type validation applies exactly to the names that are both in the  *)
(* call's parameters and in the tool's schema.  For a call that reaches    *)
(* validation (active agent, registered tool):                             *)
(*   - if a declared parameter's value fails its declared type the call    *)
(*     ends with a 400, which, when no required name is missing, names a   *)
(*     failing parameter and its expected type;                            *)
(*   - a 400 is due to declared names only: to a missing required name or  *)
(*     to a declared parameter failing its type;                           *)
(*   - otherwise the handler is invoked with the parameters unchanged,     *)
(*     the undeclared ones included.                                       *)
(* (The reading of "naming that parameter" most favourable to the code:    *)
(* one failure is reported.)  The code cannot pass a parameter named       *)
(* user_context: the handler call, which spreads the parameters as keyword *)
(* arguments next to user_context=..., raises TypeError.                   *)
(***************************************************************************)
ReachesValidation(c) ==
    /\ Begins(c)
    /\ AgentIsActive(calls'[c].agent_id)
    /\ calls'[c].tool_name \in DOMAIN tools

TypeErrorDetail(tool_def, param) ==
    "Parameter '" \o param \o "' should be of type " \o tool_def.parameters[param].type[1]

C10_TypeValidationPermissive ==
    [][\A c \in CallIds :
          ReachesValidation(c) =>
              LET tool_def == ToolOf(calls'[c])
                  parameters == calls'[c].parameters
                  missing == MissingRequired(tool_def, parameters)
                  wrong == TypeMismatches(tool_def, parameters)
              IN /\ wrong # {} =>
                        /\ calls'[c].pc = "done"
                        /\ StatusOf(calls'[c]) = HTTP_400_BAD_REQUEST
                        /\ missing = {} =>
                               \E i \in wrong :
                                   calls'[c].response[1].detail
                                       = TypeErrorDetail(tool_def, parameters[i].k)
                 /\ StatusOf(calls'[c]) = HTTP_400_BAD_REQUEST =>
                        missing # {} \/ wrong # {}
                 /\ (missing = {} /\ wrong = {}) =>
                        /\ calls'[c].pc = "in_handler"
                        /\ calls'[c].kwargs # None
                        /\ calls'[c].kwargs[1].parameters = parameters]_vars

(***************************************************************************)
(* SpecRegistry: the registries under every order of registrations.  The   *)
(* tool sum is registered in full or with its defaults left out, under two *)
(* handlers; the tool echo is registered with a required name its          *)
(* parameters do not declare; agent a1 calls sum while this goes on.       *)
(***************************************************************************)
\* sum given without required and timeout_seconds: the defaults apply
MinimalSumTool == [SumTool EXCEPT !.given = {"name", "description", "parameters"}]
\* echo, whose required list names text although only numbers is declared
DanglingTool ==
    [given |-> AllGiven, name |-> "echo", description |-> "echoes",
     parameters |-> [numbers |-> Schema(Some("array"))],
     required |-> <<"numbers", "text">>, timeout_seconds |-> 1]

RegistryDefinitions == {SumTool, MinimalSumTool, DanglingTool, BadTool}
RegistryHandlers == {"h_sum", "h_sum2"}

NextRegistry ==
    \/ \E a \in AgentIds : register_agent(a, <<"math">>, None)
    \/ \E d \in RegistryDefinitions, h \in RegistryHandlers : register_tool(d, h)
    \/ \E p \in {<<>>, <<Item("numbers", Py("list", 1))>>} :
           /\ metrics.total_requests < MaxRequests
           /\ execute_tool(1, "sum", p, "a1", None, None)
    \/ \E v \in HandlerResults : HandlerReturns(1, v)
    \/ \E msg \in HandlerMessages : HandlerRaises(1, msg)
    \/ Respond(1)

SpecRegistry == Init /\ [][NextRegistry]_vars

(***************************************************************************)
(* C11: after any sequence of register_tool calls the registry holds at    *)
(* most one entry per tool name (every entry is filed under the name of    *)
(* its own definition), and a successful register_tool(d, h) leaves under  *)
(* d's name exactly d (with the defaults for what d leaves out) and h,     *)
(* whatever was registered under that name before, and leaves every other  *)
(* entry as it was.                                                        *)
(***************************************************************************)
\* the definition d as the registry must hold it
StoredAs(tool_def, d) ==
    /\ tool_def.name = d.name
    /\ tool_def.description = d.description
    /\ tool_def.parameters = d.parameters
    /\ tool_def.required = (IF "required" \in d.given THEN d.required ELSE <<>>)
    /\ tool_def.timeout_seconds = (IF "timeout_seconds" \in d.given
                                   THEN d.timeout_seconds
                                   ELSE DEFAULT_TIMEOUT_SECONDS)

\* register_tool(d, h) run from the current state leaves d and h under d's
\* name, next to the other entries as they were
RegistersTool(d, h) ==
    /\ register_tool(d, h)
    /\ DOMAIN tools' = DOMAIN tools \cup {d.name}
    /\ StoredAs(tools'[d.name].tool_def, d)
    /\ tools'[d.name].handler = h
    /\ \A n \in DOMAIN tools \ {d.name} : tools'[n] = tools[n]

C11_LastRegistrationWins ==
    /\ \A n \in DOMAIN tools : tools[n].tool_def.name = n
    /\ \A d \in RegistryDefinitions, h \in RegistryHandlers :
           ToolDefinition(d) # None => ENABLED RegistersTool(d, h)

\* sum is held with its defaults under h_sum2 while a call that looked sum
\* up earlier still runs the handler h_sum registered before
C11_Witness ==
    /\ "sum" \in DOMAIN tools
    /\ tools["sum"].handler = "h_sum2"
    /\ StoredAs(tools["sum"].tool_def, MinimalSumTool)
    /\ calls[1].pc = "in_handler"
    /\ calls[1].handler = "h_sum"
    /\ calls[1].timeout_seconds = SumTool.timeout_seconds

(***************************************************************************)
(* C12: register_tool with a definition whose required list holds a name   *)
(* that is not a key of its parameters fails and stores nothing, so in     *)
(* every reachable state every stored tool definition has required within  *)
(* the keys of its parameters.                                             *)
(* ToolDefinition declares the two fields with no validator relating them  *)
(* (lines 27-33), and register_tool stores whatever the model accepts.     *)
(***************************************************************************)
\* the names of a required list that the parameters do not declare
UndeclaredRequired(required, parameters) ==
    {required[i] : i \in 1..Len(required)} \ DOMAIN parameters

C12_RequiredAreDeclared ==
    \A n \in DOMAIN tools :
        UndeclaredRequired(tools[n].tool_def.required,
                           tools[n].tool_def.parameters) = {}

(***************************************************************************)
(* The endpoint POST /agents/register: the request body is validated as an *)
(* AgentRegistrationRequest, then the agent is registered with the         *)
(* request's own metadata.  A string is inspected through its spelling.    *)
(***************************************************************************)
\* the strings used as agent ids, letter by letter
Spelling ==
    ("" :> <<>>) @@ ("a1" :> <<"a", "1">>) @@ ("a2" :> <<"a", "2">>)
        @@ ("a 1" :> <<"a", " ", "1">>) @@ ("b-2" :> <<"b", "-", "2">>)

\* the character class [a-zA-Z0-9_-]
IdChars ==
    {"a", "b", "c", "d", "e", "f", "g", "h", "i", "j", "k", "l", "m", "n", "o",
     "p", "q", "r", "s", "t", "u", "v", "w", "x", "y", "z",
     "A", "B", "C", "D", "E", "F", "G", "H", "I", "J", "K", "L", "M", "N", "O",
     "P", "Q", "R", "S", "T", "U", "V", "W", "X", "Y", "Z",
     "0", "1", "2", "3", "4", "5", "6", "7", "8", "9", "_", "-"}

\* the pattern ^[a-zA-Z0-9_-]+$ of agent_id
MatchesIdPattern(agent_id) ==
    /\ Len(Spelling[agent_id]) >= 1
    /\ \A i \in 1..Len(Spelling[agent_id]) : Spelling[agent_id][i] \in IdChars

\* str.strip() on the strings used as capabilities
strip == ("math" :> "math") @@ ("io" :> "io") @@ ("  " :> "") @@ ("" :> "")

\* the validated request, None when pydantic rejects the body: agent_id of
\* 1 to 100 characters matching the pattern, at least one capability.  The
\* function validate_capabilities (schemas/mcp.py 170-175) is defined at
\* module level and belongs to no model, so no capability is inspected.
AgentRegistrationRequest(agent_data) ==
    IF /\ Len(Spelling[agent_data.agent_id]) >= 1
       /\ Len(Spelling[agent_data.agent_id]) <= 100
       /\ MatchesIdPattern(agent_data.agent_id)
       /\ Len(agent_data.capabilities) >= 1
    THEN Some(agent_data)
    ELSE None

\* the metadata the endpoint builds from the HTTP request (lines 40-45)
RequestMetadata(capabilities) ==
    <<Item("user_agent", "curl"), Item("ip_address", "10.0.0.1"),
      Item("user_id", "u1"), Item("capabilities", capabilities)>>

\* endpoints/mcp.py register_agent (lines 26-61)
endpoint_register_agent(body) ==
    LET agent_data == AgentRegistrationRequest(body)
    IN IF agent_data = None
       THEN \* 422 Unprocessable Entity, the endpoint body does not run
            UNCHANGED vars
       ELSE register_agent(agent_data[1].agent_id, agent_data[1].capabilities,
                           Some(RequestMetadata(agent_data[1].capabilities)))

(***************************************************************************)
(* SpecAgents: agent a1 registered and re-registered, directly and through *)
(* the endpoint, with well-formed and ill-formed ids and capabilities,     *)
(* while the clock runs and a1 calls the tool sum.                         *)
(***************************************************************************)
\* (capabilities, metadata) of the direct register_agent calls
AgentProfiles ==
    {<<(<<"math">>), None>>,
     <<(<<"io", "math">>), Some(<<Item("env", "prod")>>)>>}

\* the bodies posted to /agents/register
AgentRequests ==
    {[agent_id |-> a, capabilities |-> caps, metadata |-> None] :
        a \in {"a1", "a 1", ""}, caps \in {<<"math">>, <<"  ">>, <<>>}}

NextAgents ==
    \/ Tick
    \/ \E a \in {"a1", ""}, prof \in AgentProfiles : register_agent(a, prof[1], prof[2])
    \/ \E body \in AgentRequests : endpoint_register_agent(body)
    \/ register_tool(SumTool, "h_sum")
    \/ /\ metrics.total_requests < MaxRequests
       /\ execute_tool(1, "sum", <<Item("numbers", Py("list", 1))>>, "a1", None, None)
    \/ \E v \in HandlerResults : HandlerReturns(1, v)
    \/ Respond(1)

SpecAgents == Init /\ [][NextAgents]_vars

(***************************************************************************)
(* C13: a successful register_agent(id, capabilities, metadata) leaves     *)
(* exactly one record for id, with status active, the given capabilities   *)
(* and metadata (an empty dict for None) and registered_at and last_seen   *)
(* both at the time of the registration; a record that id had before is    *)
(* replaced as a whole, and the other records are as they were.            *)
(***************************************************************************)
RegistersAgent(agent_id, capabilities, metadata) ==
    /\ register_agent(agent_id, capabilities, metadata)
    /\ DOMAIN agents' = DOMAIN agents \cup {agent_id}
    /\ agents'[agent_id] =
           [agent_id |-> agent_id, capabilities |-> capabilities,
            registered_at |-> now, last_seen |-> now, status |-> "active",
            metadata |-> IF metadata = None THEN <<>> ELSE metadata[1]]
    /\ \A a \in DOMAIN agents \ {agent_id} : agents'[a] = agents[a]

C13_RegistrationReplacesRecord ==
    \A prof \in AgentProfiles : ENABLED RegistersAgent("a1", prof[1], prof[2])

\* a1, whose call started at time 0 is still in its handler, holds a record
\* registered later, with the second profile and nothing of the first
C13_Witness ==
    /\ calls[1].pc = "in_handler"
    /\ calls[1].agent_id = "a1"
    /\ calls[1].start_time = 0
    /\ "a1" \in DOMAIN agents
    /\ agents["a1"].registered_at > 0
    /\ agents["a1"].last_seen = agents["a1"].registered_at
    /\ agents["a1"].capabilities = <<"io", "math">>
    /\ agents["a1"].metadata = <<Item("env", "prod")>>

(***************************************************************************)
(* C14: agent registration fails, and leaves the agent registry unchanged,  *)
(* when agent_id is empty or does not match [a-zA-Z0-9_-]+ or when a        *)
(* capability is empty after trimming; so every record of the registry has  *)
(* a well-formed agent_id and only capabilities that are non-empty after    *)
(* trimming.  The check of the capabilities (validate_capabilities) is      *)
(* attached to no model, and register_agent tests the id for emptiness      *)
(* only: a body with the capability "  " is registered.                     *)
(***************************************************************************)
\* some capability of the list is empty after str.strip()
HasBlankCapability(capabilities) ==
    \E i \in 1..Len(capabilities) : strip[capabilities[i]] = ""

C14_InvalidAgentsRejected ==
    \A a \in DOMAIN agents :
        /\ MatchesIdPattern(a)
        /\ ~HasBlankCapability(agents[a].capabilities)

(***************************************************************************)
(* The endpoint GET /logs/executions (endpoints/mcp.py 189-235): a read of *)
(* the execution log, filtered and cut into pages.                         *)
(***************************************************************************)
MAX_PAGE_SIZE == 100

\* the query as pydantic validates it: page >= 1, 1 <= page_size <= 100;
\* None when it is rejected
ExecutionLogFilter(q) ==
    IF q.page >= 1 /\ q.page_size >= 1 /\ q.page_size <= MAX_PAGE_SIZE
    THEN Some(q)
    ELSE None

\* a >= b and a <= b in Python: values of one type compare by their order,
\* a str against a datetime raises TypeError (None)
GreaterEqual(a, b) == IF a.ty = b.ty THEN Some(a.v >= b.v) ELSE None
LessEqual(a, b) == IF a.ty = b.ty THEN Some(a.v <= b.v) ELSE None

\* lines 199-208: the filters on agent_id, tool_name and status, each
\* applied when its value is truthy
FilterByFields(logs, filter_params) ==
    LET by_agent == IF Truthy(filter_params.agent_id)
                    THEN SelectSeq(logs, LAMBDA log : log.agent_id = filter_params.agent_id[1])
                    ELSE logs
        by_tool == IF Truthy(filter_params.tool_name)
                   THEN SelectSeq(by_agent, LAMBDA log : log.tool = filter_params.tool_name[1])
                   ELSE by_agent
    IN IF Truthy(filter_params.status)
       THEN SelectSeq(by_tool, LAMBDA log : log.status = filter_params.status[1])
       ELSE by_tool

\* lines 210-211: None when a comparison raises
FilterByStartTime(logs, filter_params) ==
    IF filter_params.start_time = None THEN Some(logs)
    ELSE IF \E i \in 1..Len(logs) :
               GreaterEqual(logs[i].timestamp, filter_params.start_time[1]) = None
    THEN None
    ELSE Some(SelectSeq(logs, LAMBDA log :
                  GreaterEqual(log.timestamp, filter_params.start_time[1])[1]))

\* lines 213-214: None when a comparison raises
FilterByEndTime(logs, filter_params) ==
    IF filter_params.end_time = None THEN Some(logs)
    ELSE IF \E i \in 1..Len(logs) :
               LessEqual(logs[i].timestamp, filter_params.end_time[1]) = None
    THEN None
    ELSE Some(SelectSeq(logs, LAMBDA log :
                  LessEqual(log.timestamp, filter_params.end_time[1])[1]))

\* logs[first:last] of Python, first and last counted from 0
Slice(logs, first, last) ==
    IF first >= Len(logs) \/ last <= first THEN <<>>
    ELSE SubSeq(logs, first + 1, IF last < Len(logs) THEN last ELSE Len(logs))

\* the pagination with total_pages rounded down
Paginate_RoundsDown(logs, page, page_size) ==
    LET total == Len(logs)
        first == (page - 1) * page_size
        last == first + page_size
    IN [items |-> Slice(logs, first, last), total |-> total, page |-> page,
        page_size |-> page_size, total_pages |-> total \div page_size]

\* lines 216-228
Paginate(logs, page, page_size) ==
    LET total == Len(logs)
        first == (page - 1) * page_size
        last == first + page_size
    IN [items |-> Slice(logs, first, last), total |-> total, page |-> page,
        page_size |-> page_size,
        total_pages |-> (total + page_size - 1) \div page_size]

\* what str(e) is for the TypeError of a comparison
ComparisonTypeError(op) ==
    "'" \o op \o "' not supported between instances of 'str' and 'datetime.datetime'"

\* lines 230-235
LogQueryFailed(message) ==
    HTTPException(HTTP_500_INTERNAL_SERVER_ERROR,
                  "Failed to get execution logs: " \o message)

\* the response of the endpoint to the validated query filter_params
get_execution_logs(filter_params) ==
    LET by_fields == FilterByFields(execution_log, filter_params)
        from_start == FilterByStartTime(by_fields, filter_params)
    IN IF from_start = None THEN LogQueryFailed(ComparisonTypeError(">="))
       ELSE LET to_end == FilterByEndTime(from_start[1], filter_params)
            IN IF to_end = None THEN LogQueryFailed(ComparisonTypeError("<="))
               ELSE Returned(Paginate(to_end[1], filter_params.page,
                                      filter_params.page_size))

(***************************************************************************)
(* SpecQuery: agents a1 and a2 and the tools sum and echo registered, then *)
(* calls one after the other by either agent on either tool, whose handler *)
(* returns or raises, so that the log holds every mix of agent, tool and   *)
(* status; the log is queried in every state.                              *)
(***************************************************************************)
EchoTool ==
    [given |-> AllGiven, name |-> "echo", description |-> "echoes the text",
     parameters |-> [text |-> Schema(Some("string"))],
     required |-> <<>>, timeout_seconds |-> 1]

\* valid parameters for the tool
ParametersFor(tool_name) ==
    IF tool_name = "sum" THEN <<Item("numbers", Py("list", 1))>> ELSE <<>>

NextQuery ==
    \/ \E a \in AgentIds : register_agent(a, <<"math">>, None)
    \/ register_tool(SumTool, "h_sum")
    \/ register_tool(EchoTool, "h_echo")
    \/ \E t \in ToolNames, a \in AgentIds :
           /\ metrics.total_requests < MaxQueryCalls
           /\ a \in DOMAIN agents
           /\ t \in DOMAIN tools
           /\ execute_tool(1, t, ParametersFor(t), a, None, None)
    \/ \E v \in HandlerResults : HandlerReturns(1, v)
    \/ \E msg \in HandlerMessages : HandlerRaises(1, msg)
    \/ Respond(1)

SpecQuery == Init /\ [][NextQuery]_vars

\* a query with the given field filters and page, and no time filter
FieldQuery(agent_id, tool_name, status, page, page_size) ==
    [agent_id |-> agent_id, tool_name |-> tool_name, status |-> status,
     start_time |-> None, end_time |-> None,
     page |-> page, page_size |-> page_size]

Pages == 1..MaxPage
PageSizes == (1..MaxPageSize) \cup {MAX_PAGE_SIZE}

(***************************************************************************)
(* C15: for a filtered log of size total, every page >= 1 and every        *)
(* page_size in 1..100, the log query returns total, total_pages =         *)
(* ceil(total / page_size) (the one number tp with (tp - 1) * page_size <  *)
(* total <= tp * page_size) and the items at positions (page - 1) *        *)
(* page_size up to page * page_size - 1 of the filtered log, in order;     *)
(* when page > total_pages the items are empty, total is unchanged and     *)
(* there is no error.                                                      *)
(***************************************************************************)
PageQueries ==
    {FieldQuery(a, None, st, pg, ps) :
        a \in {None, Some("a1")}, st \in {None, Some("error")},
        pg \in Pages, ps \in PageSizes}

\* r is the page the query q must return of the filtered log
IsPageOf(r, filtered, q) ==
    LET total == Len(filtered)
        offset == (q.page - 1) * q.page_size
        due == IF total <= offset THEN 0
               ELSE IF total - offset < q.page_size THEN total - offset
               ELSE q.page_size
    IN /\ r.total = total
       /\ r.page = q.page /\ r.page_size = q.page_size
       /\ (r.total_pages - 1) * q.page_size < total
       /\ total <= r.total_pages * q.page_size
       /\ Len(r.items) = due
       /\ \A j \in 1..due : r.items[j] = filtered[offset + j]
       /\ q.page > r.total_pages => r.items = <<>>

C15_PaginationIsExact ==
    \A q \in PageQueries :
        /\ ExecutionLogFilter(q) = Some(q)
        /\ get_execution_logs(q).kind = "return"
        /\ IsPageOf(get_execution_logs(q).result[1],
                    FilterByFields(execution_log, q), q)

\* the log holds three entries, one of them an error: pages of 2 are 2 in
\* number and page 2 holds the third entry alone, page 3 is empty; the one
\* error makes one page of any size
C15_Witness ==
    /\ Len(execution_log) = 3
    /\ get_execution_logs(FieldQuery(None, None, None, 2, 2)).result[1].total_pages = 2
    /\ get_execution_logs(FieldQuery(None, None, None, 2, 2)).result[1].items
           = <<execution_log[3]>>
    /\ get_execution_logs(FieldQuery(None, None, None, 3, 2)).result[1].items = <<>>
    /\ get_execution_logs(FieldQuery(None, None, None, 3, 2)).result[1].total = 3
    /\ get_execution_logs(FieldQuery(None, None, Some("error"), 1, 100)).result[1].total = 1

(***************************************************************************)
(* C16: for every combination of the filters agent_id, tool_name, status,  *)
(* start_time and end_time the log query returns exactly the log entries   *)
(* that satisfy all the filters supplied, in insertion order; a filter not *)
(* supplied excludes nothing.  The code compares the entry's timestamp, an *)
(* isoformat string (line 264), with the filter's datetime (lines 211 and  *)
(* 214): a query with a time filter that reaches a non-empty list raises   *)
(* TypeError and is answered 500.                                          *)
(***************************************************************************)
LogFilters ==
    {[agent_id |-> a, tool_name |-> t, status |-> st, start_time |-> from,
      end_time |-> to, page |-> 1, page_size |-> MAX_PAGE_SIZE] :
        a \in {None, Some("a1"), Some("a2")},
        t \in {None, Some("sum"), Some("echo")},
        st \in {None, Some("success"), Some("error")},
        from \in {None, Some(datetime(0))},
        to \in {None, Some(datetime(0))}}

\* the entry passes every filter that f supplies
Satisfies(log, f) ==
    /\ f.agent_id # None => log.agent_id = f.agent_id[1]
    /\ f.tool_name # None => log.tool = f.tool_name[1]
    /\ f.status # None => log.status = f.status[1]
    /\ f.start_time # None => log.timestamp.v >= f.start_time[1].v
    /\ f.end_time # None => log.timestamp.v <= f.end_time[1].v

C16_FiltersConjoin ==
    \A f \in LogFilters :
        LET matching == SelectSeq(execution_log, LAMBDA log : Satisfies(log, f))
        IN /\ get_execution_logs(f).kind = "return"
           /\ get_execution_logs(f).result[1].total = Len(matching)
           /\ get_execution_logs(f).result[1].items = matching

(***************************************************************************)
(* C17: in every reachable state get_metrics reports registered_tools      *)
(* equal to the number of distinct tool names in the tool registry and     *)
(* active_agents equal to the number of agent records whose status is      *)
(* active, whatever registrations and executions came before.              *)
(***************************************************************************)
C17_MetricsCountRegistries ==
    /\ get_metrics.registered_tools
           = Cardinality({tools[n].tool_def.name : n \in DOMAIN tools})
    /\ get_metrics.active_agents
           = Cardinality({a \in DOMAIN agents : agents[a].status = "active"})

\* two tools under one handler and two agents are registered, one call has
\* succeeded and one has failed: get_metrics reports 2 and 2
C17_Witness ==
    /\ DOMAIN tools = {"sum", "echo"}
    /\ tools["sum"].handler = tools["echo"].handler
    /\ DOMAIN agents = {"a1", "a2"}
    /\ metrics.successful_executions = 1
    /\ metrics.failed_executions = 1
    /\ get_metrics.registered_tools = 2
    /\ get_metrics.active_agents = 2

(***************************************************************************)
(* C18: under every interleaving of execute_tool calls no counter update   *)
(* is lost: every step adds to total_requests the number of calls that     *)
(* start in it, to successful_executions the number of calls that return   *)
(* a result in it and to failed_executions the number of calls that leave  *)
(* through the handler-failure path (the 500) in it, and nothing else; so  *)
(* once all calls have completed each counter is the number of increments  *)
(* the calls performed.                                                    *)
(***************************************************************************)
\* the step is coroutine c leaving execute_tool
Finishes(c) == calls[c].pc # "done" /\ calls'[c].pc = "done"

C18_NoLostCounterUpdate ==
    [][/\ metrics'.total_requests = metrics.total_requests
              + Cardinality({c \in CallIds : Begins(c)})
       /\ metrics'.successful_executions = metrics.successful_executions
              + Cardinality({c \in CallIds :
                    Finishes(c) /\ calls'[c].response[1].kind = "return"})
       /\ metrics'.failed_executions = metrics.failed_executions
              + Cardinality({c \in CallIds :
                    Finishes(c) /\ StatusOf(calls'[c]) = HTTP_500_INTERNAL_SERVER_ERROR})]_vars

\* two calls that both started at time 0 have completed, one returning at
\* time 1 and one failing at time 2, and the counters read 2, 1 and 1
C18_Witness ==
    /\ Quiescent
    /\ Len(execution_log) = 2
    /\ execution_log[1].status = "success"
    /\ execution_log[1].timestamp = isoformat(1)
    /\ execution_log[1].execution_time_ms = ElapsedMs(0, 1)
    /\ execution_log[2].status = "error"
    /\ execution_log[2].timestamp = isoformat(2)
    /\ execution_log[2].execution_time_ms = ElapsedMs(0, 2)
    /\ metrics.total_requests = 2
    /\ metrics.successful_executions = 1
    /\ metrics.failed_executions = 1

(***************************************************************************)
(* C19: under every interleaving of execute_tool calls, each call whose    *)
(* handler ran to success or to failure appends exactly one log entry, its *)
(* own (none lost, none duplicated: a step in which no call finishes       *)
(* appends nothing), and the log holds at most 1000 entries after every    *)
(* append.  The code appends nothing for a call whose handler failed with  *)
(* an HTTPException (lines 180-181).                                       *)
(***************************************************************************)
C19_EveryHandledCallLogsOnce ==
    [][/\ \A c \in CallIds :
            HandlerDid(c, {"returned", "raised", "raised HTTPException"}) =>
                /\ AppendsOneEntry
                /\ NewEntry.execution_id = calls[c].execution_id
                /\ NewEntry.tool = calls[c].tool_name
                /\ NewEntry.agent_id = calls[c].agent_id
       /\ (\A c \in CallIds : ~Finishes(c)) => execution_log' = execution_log
       /\ Len(execution_log') <= LOG_CAPACITY]_vars

(***************************************************************************)
(* C20: while an execute_tool call is suspended in its handler, however    *)
(* long and even for good, another execute_tool call can start and a call  *)
(* in flight can complete, and agents and tools can be registered; a step  *)
(* of one call (its handler hanging, failing or returning, at any time     *)
(* before or after its timeout) leaves every other call as it was, and the *)
(* result a call returns is made of its own handler's value, its own start *)
(* time and the clock only.                                                *)
(***************************************************************************)
Suspended(c) == calls[c].pc \in {"in_handler", "hung"}

\* the other operations can run now
OthersCanRun(c) ==
    /\ ENABLED register_agent("a1", <<"math">>, None)
    /\ ENABLED register_tool(SumTool, "h_sum")
    /\ \A d \in CallIds \ {c} :
         /\ calls[d].pc = "idle" =>
                ENABLED execute_tool(d, "sum", ParametersFor("sum"), "a1", None, None)
         /\ calls[d].pc = "in_handler" =>
                \A v \in HandlerResults : ENABLED HandlerReturns(d, v)
         /\ calls[d].pc = "done" => ENABLED Respond(d)

\* the step is a step of coroutine c
Acts(c) == calls'[c] # calls[c]

C20_SuspendedCallBlocksNothing ==
    /\ [](\A c \in CallIds : Suspended(c) => OthersCanRun(c))
    /\ [][\A c \in CallIds :
            /\ Acts(c) => \A d \in CallIds \ {c} : calls'[d] = calls[d]
            /\ HandlerDid(c, {"returned"}) =>
                   calls'[c].response =
                       Some(Returned(ToolExecutionResult(TRUE,
                                calls'[c].outcome[1].value, None,
                                ElapsedMs(calls[c].start_time, now), now)))]_vars

\* a call that started at time 0 hangs, two seconds later and past its
\* timeout; meanwhile a1 was registered again at time 1 and another call
\* started at time 1 and returned at time 2
C20_Witness ==
    \E c, d \in CallIds :
        /\ calls[c].pc = "hung"
        /\ calls[c].start_time = 0
        /\ now - calls[c].start_time > calls[c].timeout_seconds
        /\ agents["a1"].registered_at = 1
        /\ calls[d].pc = "done"
        /\ calls[d].response[1].kind = "return"
        /\ calls[d].response[1].result[1].timestamp = isoformat(2)
        /\ calls[d].response[1].result[1].execution_time_ms = ElapsedMs(1, 2)

(***************************************************************************)
(* C21: a handler failure is isolated.  The step in which a handler's      *)
(* exception is handled changes nothing but failed_executions, the log (by *)
(* one appended entry) and the failing call itself; the call's start wrote *)
(* nothing but total_requests and its agent's last_seen.  The tool         *)
(* registry and every other agent record stay as they were, and how a      *)
(* later call starts (its rejection or the handler it invokes) is a        *)
(* function of its arguments and the two registries alone, hence the same  *)
(* as if the failing call had not happened.                                *)
(***************************************************************************)
\* how a call with these arguments starts, from the registries alone: where
\* it stands after the step and the status code it was answered with
ExpectedStart(call) ==
    IF ~AgentIsActive(call.agent_id) THEN <<"done", HTTP_403_FORBIDDEN>>
    ELSE IF call.tool_name \notin DOMAIN tools THEN <<"done", HTTP_404_NOT_FOUND>>
    ELSE IF _validate_parameters(ToolOf(call), call.parameters) # None
    THEN <<"done", HTTP_400_BAD_REQUEST>>
    ELSE IF KeywordCollision(call.parameters)
    THEN <<"done", HTTP_500_INTERNAL_SERVER_ERROR>>
    ELSE <<"in_handler", 0>>

\* the agent records differ at most in the last_seen of agent_id
OnlyLastSeenOf(agent_id) ==
    /\ DOMAIN agents' = DOMAIN agents
    /\ \A a \in DOMAIN agents :
           agents'[a] = IF a = agent_id
                        THEN [agents[a] EXCEPT !.last_seen = agents'[a].last_seen]
                        ELSE agents[a]

C21_FailureIsIsolated ==
    [][\A c \in CallIds :
          /\ HandlerDid(c, {"raised", "raised HTTPException"}) =>
                /\ UNCHANGED <<tools, agents, start_time>>
                /\ \A d \in CallIds \ {c} : calls'[d] = calls[d]
                /\ metrics'.total_requests = metrics.total_requests
                /\ metrics'.successful_executions = metrics.successful_executions
                /\ metrics'.active_agents = metrics.active_agents
                /\ metrics'.failed_executions \in
                       {metrics.failed_executions, metrics.failed_executions + 1}
                /\ execution_log' = execution_log \/ AppendsOneEntry
          /\ Begins(c) =>
                /\ UNCHANGED <<tools, start_time>>
                /\ OnlyLastSeenOf(calls'[c].agent_id)
                /\ <<calls'[c].pc, StatusOf(calls'[c])>> = ExpectedStart(calls'[c])
                /\ calls'[c].pc = "in_handler" =>
                       calls'[c].handler = tools[calls'[c].tool_name].handler]_vars

\* a call of sum by a1 succeeded after a call of sum by a1 had failed in its
\* handler
C21_Witness ==
    /\ Len(execution_log) = 2
    /\ execution_log[1].status = "error"
    /\ execution_log[1].error = Some("boom")
    /\ execution_log[2].status = "success"
    /\ execution_log[1].agent_id = execution_log[2].agent_id
    /\ execution_log[1].tool = execution_log[2].tool
    /\ metrics.failed_executions = 1
    /\ metrics.successful_executions = 1

(***************************************************************************)
(* C22: start_time is set once.  Once the server has been started no       *)
(* operation, a further start() included, changes start_time, so           *)
(* get_metrics' uptime_seconds is measured from the first start and a      *)
(* later reading is never below an earlier one.  The code's start()        *)
(* assigns start_time the current time on every call (line 294).           *)
(***************************************************************************)
C22_StartTimeSetOnce ==
    [][/\ start_time # None => start_time' = start_time
       /\ get_metrics'.uptime_seconds >= get_metrics.uptime_seconds]_vars

(***************************************************************************)
(* C23: total_requests counts the calls that pass the four preconditions   *)
(* (agent registered and active, tool registered, required parameters      *)
(* present, declared types matched): such a call adds exactly 1 to it when *)
(* it starts and never again, and a call that one of the preconditions     *)
(* rejects leaves it unchanged.  The code increments total_requests on     *)
(* entry (line 126), before the first check.                               *)
(***************************************************************************)
\* the call passes the four preconditions of lines 131-152
PassesPreconditions(call) ==
    /\ AgentIsActive(call.agent_id)
    /\ call.tool_name \in DOMAIN tools
    /\ _validate_parameters(ToolOf(call), call.parameters) = None

C23_TotalCountsAcceptedCalls ==
    [][\A c \in CallIds :
          /\ Begins(c) =>
                metrics'.total_requests =
                    metrics.total_requests
                        + (IF PassesPreconditions(calls'[c]) THEN 1 ELSE 0)
          /\ Resumes(c) => metrics'.total_requests = metrics.total_requests]_vars

(***************************************************************************)
(* C24: every execute_tool call made under the id of a registered active   *)
(* agent sets that agent's last_seen to the time of the call when it       *)
(* starts, whether it then succeeds, fails in the handler, names an        *)
(* unknown tool or fails validation; no step of execute_tool changes       *)
(* registered_at, capabilities, status or metadata of any record, and the  *)
(* completion of a call writes no agent record at all.                     *)
(***************************************************************************)
C24_EveryCallTouchesLastSeen ==
    [][\A c \in CallIds :
          /\ Begins(c) /\ AgentIsActive(calls'[c].agent_id) =>
                agents' = [agents EXCEPT ![calls'[c].agent_id].last_seen = now]
          /\ Begins(c) /\ ~AgentIsActive(calls'[c].agent_id) => agents' = agents
          /\ Resumes(c) => agents' = agents]_vars

\* a1, registered at time 0, called the unregistered tool sum at time 1 and
\* was answered 404: its last_seen is 1
C24_Witness ==
    /\ "a1" \in DOMAIN agents
    /\ agents["a1"].registered_at = 0
    /\ agents["a1"].last_seen = 1
    /\ metrics.total_requests = 1
    /\ \E c \in CallIds :
           /\ calls[c].pc = "done"
           /\ StatusOf(calls[c]) = HTTP_404_NOT_FOUND

(***************************************************************************)
(* C25: every registered agent is active.  No operation changes the status *)
(* of a record away from active or removes a record, every record is       *)
(* created active, and so the active_agents metric, as register_agent      *)
(* stores it and as get_metrics recomputes it, equals the number of        *)
(* registered agent ids.                                                   *)
(***************************************************************************)
C25_EveryAgentIsActive ==
    /\ [](/\ \A a \in DOMAIN agents :
                agents[a].status = "active" /\ agents[a].agent_id = a
          /\ metrics.active_agents = Cardinality(DOMAIN agents)
          /\ get_metrics.active_agents = Cardinality(DOMAIN agents))
    /\ [][/\ DOMAIN agents \subseteq DOMAIN agents'
          /\ \A a \in DOMAIN agents : agents'[a].status = agents[a].status]_vars

\* both agents are registered and counted after a call of one was rejected
\* and a call of the other failed in its handler
C25_Witness ==
    /\ DOMAIN agents = AgentIds
    /\ get_metrics.active_agents = 2
    /\ metrics.failed_executions = 1
    /\ metrics.total_requests = 2
    /\ metrics.successful_executions = 0
    /\ \E c, d \in CallIds :
           /\ calls[c].pc = "done" /\ calls[d].pc = "done"
           /\ calls[c].agent_id # calls[d].agent_id
           /\ StatusOf(calls[c]) = HTTP_403_FORBIDDEN
           /\ StatusOf(calls[d]) = HTTP_500_INTERNAL_SERVER_ERROR

(***************************************************************************)
(* C26: a request_id the caller supplies is the execution_id of the call's *)
(* log entry and nothing more.  It is no deduplication key: a call that    *)
(* passes the preconditions invokes the handler whether or not its         *)
(* request_id is in the log or carried by a call in flight, and when its   *)
(* handler returns or raises it appends its own entry under that id.       *)
(***************************************************************************)
C26_RequestIdIsNoDedupKey ==
    [][\A c \in CallIds :
          /\ Begins(c) /\ PassesPreconditions(calls'[c])
                       /\ ~KeywordCollision(calls'[c].parameters) =>
                /\ calls'[c].pc = "in_handler"
                /\ calls'[c].kwargs # None
                /\ Truthy(calls'[c].request_id) =>
                       calls'[c].execution_id = calls'[c].request_id[1]
          /\ HandlerDid(c, {"returned", "raised"}) =>
                /\ AppendsOneEntry
                /\ NewEntry.execution_id = calls[c].execution_id
                /\ Truthy(calls[c].request_id) =>
                       NewEntry.execution_id = calls[c].request_id[1]]_vars

\* two calls made with request_id r1 have both run their handler and the log
\* holds one entry of each, both under r1
C26_Witness ==
    /\ Len(execution_log) = 2
    /\ execution_log[1].execution_id = "r1"
    /\ execution_log[2].execution_id = "r1"
    /\ \A c \in CallIds :
           /\ calls[c].pc = "done"
           /\ calls[c].request_id = Some("r1")
           /\ calls[c].outcome # None

(***************************************************************************)
(* C27: the frame of register_tool.  A registration that succeeds changes  *)
(* the entry under the definition's name and nothing else: the other tool  *)
(* entries, the agent records, the log, the counters and the calls in      *)
(* flight stay as they were.  A registration that is rejected changes      *)
(* nothing, the tool registry included.                                    *)
(***************************************************************************)
\* register_tool(d, h) run from the current state touches only d's entry
RegistersOnlyItsEntry(d, h) ==
    /\ register_tool(d, h)
    /\ DOMAIN tools' = DOMAIN tools \cup {d.name}
    /\ \A n \in DOMAIN tools \ {d.name} : tools'[n] = tools[n]
    /\ UNCHANGED <<agents, execution_log, metrics, start_time, now, calls>>

\* register_tool(d, h) run from the current state changes nothing
RejectsAndKeepsAll(d, h) ==
    /\ register_tool(d, h)
    /\ UNCHANGED vars

C27_RegisterToolFrame ==
    \A d \in RegistryDefinitions, h \in RegistryHandlers :
        IF ToolDefinition(d) # None
        THEN ENABLED RegistersOnlyItsEntry(d, h)
        ELSE ENABLED RejectsAndKeepsAll(d, h)

\* echo was registered next to sum after a call of sum had been logged, and
\* sum was registered again while a second call of it was in its handler
C27_Witness ==
    /\ DOMAIN tools = {"sum", "echo"}
    /\ tools["sum"].handler = "h_sum2"
    /\ tools["echo"].handler = "h_sum"
    /\ Len(execution_log) = 1
    /\ metrics.total_requests = 2
    /\ calls[1].pc = "in_handler"
    /\ calls[1].handler = "h_sum"

(***************************************************************************)
(* C28: in every reachable state, with calls in flight or not,             *)
(* successful_executions + failed_executions <= total_requests, and no     *)
(* step makes total_requests, successful_executions or failed_executions   *)
(* smaller.                                                                *)
(***************************************************************************)
C28_CountersBoundedAndMonotonic ==
    /\ [](metrics.successful_executions + metrics.failed_executions
              <= metrics.total_requests)
    /\ [][/\ metrics'.total_requests >= metrics.total_requests
          /\ metrics'.successful_executions >= metrics.successful_executions
          /\ metrics'.failed_executions >= metrics.failed_executions]_vars

\* one call has failed and been counted while another, counted in
\* total_requests only, is still in its handler
C28_Witness ==
    /\ metrics.total_requests = 2
    /\ metrics.failed_executions = 1
    /\ metrics.successful_executions = 0
    /\ \E c, d \in CallIds :
           /\ calls[c].pc = "in_handler"
           /\ calls[d].pc = "done"
           /\ StatusOf(calls[d]) = HTTP_500_INTERNAL_SERVER_ERROR

(***************************************************************************)
(* SpecTypes: agent a1 and one tool that declares a parameter of each      *)
(* JSON-schema type, of a type the map does not know and of no type,       *)
(* called with one parameter at a time holding a value of each Python type *)
(* a decoded JSON body can hold.                                           *)
(***************************************************************************)
TypesTool ==
    [given |-> AllGiven, name |-> "types", description |-> "one of each type",
     parameters |-> [p_string |-> Schema(Some("string")),
                     p_integer |-> Schema(Some("integer")),
                     p_number |-> Schema(Some("number")),
                     p_boolean |-> Schema(Some("boolean")),
                     p_array |-> Schema(Some("array")),
                     p_object |-> Schema(Some("object")),
                     p_uuid |-> Schema(Some("uuid")),
                     p_any |-> Schema(None)],
     required |-> <<>>, timeout_seconds |-> 1]

TypeValues == {Py("str", 1), Py("int", 1), Py("float", 1), Py("bool", 1),
               Py("list", 1), Py("dict", 1), Py("NoneType", 0)}

NextTypes ==
    \/ register_agent("a1", <<"math">>, None)
    \/ register_tool(TypesTool, "h_types")
    \/ \E k \in DOMAIN TypesTool.parameters, v \in TypeValues :
           /\ metrics.total_requests < MaxParamCalls
           /\ execute_tool(1, "types", <<Item(k, v)>>, "a1", None, None)
    \/ \E v \in HandlerResults : HandlerReturns(1, v)
    \/ Respond(1)

SpecTypes == Init /\ [][NextTypes]_vars

(***************************************************************************)
(* C29: the type test of _validate_parameters.  A declared string accepts  *)
(* strings only; integer accepts integers and booleans; number accepts     *)
(* integers, floats and booleans; boolean accepts booleans only; array     *)
(* lists only; object mappings only; a declared type the map does not know *)
(* is tested as string; a schema entry without a type accepts every value. *)
(* A value that is not accepted is answered 400 naming the parameter and   *)
(* the declared type, and an accepted one reaches the handler.             *)
(***************************************************************************)
\* the Python types the declared type (None: none declared) accepts
AcceptedBy(type) ==
    CASE type = None              -> {v.ty : v \in TypeValues}
      [] type = Some("string")    -> {"str"}
      [] type = Some("integer")   -> {"int", "bool"}
      [] type = Some("number")    -> {"int", "float", "bool"}
      [] type = Some("boolean")   -> {"bool"}
      [] type = Some("array")     -> {"list"}
      [] type = Some("object")    -> {"dict"}
      [] OTHER                    -> {"str"}

C29_TypeTestTable ==
    [][ReachesValidation(1) /\ Len(calls'[1].parameters) = 1 =>
          LET tool_def == ToolOf(calls'[1])
              param == calls'[1].parameters[1].k
              value == calls'[1].parameters[1].v
              declared == tool_def.parameters[param].type
          IN IF value.ty \in AcceptedBy(declared)
             THEN calls'[1].pc = "in_handler"
             ELSE /\ calls'[1].pc = "done"
                  /\ calls'[1].response[1]
                         = HTTPException(HTTP_400_BAD_REQUEST,
                                         TypeErrorDetail(tool_def, param))]_vars

\* a boolean given for the integer parameter has reached the handler
C29_Witness ==
    /\ calls[1].pc = "in_handler"
    /\ calls[1].parameters = <<Item("p_integer", Py("bool", 1))>>
    /\ calls[1].handler = "h_types"

(***************************************************************************)
(* SpecReregister: agent a1 and the tool sum are registered and registered *)
(* again, a1 with other capabilities and sum with another definition and   *)
(* handler, at any moment of two calls of sum by a1.                       *)
(***************************************************************************)
ReregisterCapabilities == {<<"math">>, <<"math", "stats">>}
ReregisterDefinitions == {SumTool, MinimalSumTool}
ValidSumParameters == <<Item("numbers", Py("list", 1))>>

NextReregister ==
    \/ \E caps \in ReregisterCapabilities : register_agent("a1", caps, None)
    \/ \E d \in ReregisterDefinitions, h \in RegistryHandlers : register_tool(d, h)
    \/ \E c \in CallIds :
           /\ metrics.total_requests < MaxRequests
           /\ execute_tool(c, "sum", ValidSumParameters, "a1", None, None)
    \/ \E c \in CallIds, v \in HandlerResults : HandlerReturns(c, v)
    \/ \E c \in CallIds, msg \in HandlerMessages : HandlerRaises(c, msg)
    \/ \E c \in CallIds : Respond(c)

SpecReregister == Init /\ [][NextReregister]_vars

(***************************************************************************)
(* C30: a registration made while a call is suspended in its handler does  *)
(* not reach that call.  The call keeps the handler and the definition it  *)
(* looked up before it suspended, can complete whatever the registries     *)
(* hold by then, and on completing adds 1 to its counter and appends its   *)
(* log entry without reading either registry again; a call takes the       *)
(* handler and definition registered at the moment it starts.              *)
(***************************************************************************)
\* the handler and the definition call c holds are those registered now
HoldsCurrentRegistration(call) ==
    /\ call.handler = tools[call.tool_name].handler
    /\ call.timeout_seconds = tools[call.tool_name].tool_def.timeout_seconds

C30_InFlightKeepsItsLookup ==
    /\ [](\A c \in CallIds :
              calls[c].pc = "in_handler" =>
                  /\ \A v \in HandlerResults : ENABLED HandlerReturns(c, v)
                  /\ \A msg \in HandlerMessages : ENABLED HandlerRaises(c, msg))
    /\ [][\A c \in CallIds :
             /\ calls[c].pc = "in_handler" /\ calls'[c].pc = "in_handler" =>
                   calls'[c] = calls[c]
             /\ Begins(c) /\ calls'[c].pc = "in_handler" =>
                   HoldsCurrentRegistration(calls'[c])
             /\ HandlerDid(c, {"returned", "raised"}) =>
                   /\ UNCHANGED <<tools, agents>>
                   /\ AppendsOneEntry
                   /\ NewEntry.execution_id = calls[c].execution_id
                   /\ NewEntry.tool = calls[c].tool_name
                   /\ NewEntry.agent_id = calls[c].agent_id
                   /\ metrics'.successful_executions + metrics'.failed_executions
                          = metrics.successful_executions
                              + metrics.failed_executions + 1]_vars

\* two calls of sum are in their handlers, one holding h_sum and the
\* timeout of the full definition, the other h_sum2 and the default timeout
\* of the definition registered in between, which the registry now holds;
\* a1 has been registered with its second set of capabilities
C30_Witness ==
    /\ calls[1].pc = "in_handler"
    /\ calls[1].handler = "h_sum"
    /\ calls[1].timeout_seconds = SumTool.timeout_seconds
    /\ calls[2].pc = "in_handler"
    /\ calls[2].handler = "h_sum2"
    /\ calls[2].timeout_seconds = DEFAULT_TIMEOUT_SECONDS
    /\ HoldsCurrentRegistration(calls[2])
    /\ agents["a1"].capabilities = <<"math", "stats">>

====
